---- MODULE Spec2Model ----
(***************************************************************************)
(* Model of vm-manager.js: a command-line wrapper that suspends, resumes   *)
(* or lists VMware virtual machines through the external vmrun tool.       *)
(*                                                                         *)
(* Strings are sequences of one-character strings, so that toLowerCase,    *)
(* split, trim and includes are computed character by character.  A VM     *)
(* record is referred to by its index in config.virtualMachines (the code  *)
(* passes object references around); index 0 stands for "no record".       *)
(* Every element of virtualMachines is taken to be an object with string   *)
(* id, name and path.                                                      *)
(***************************************************************************)
EXTENDS Integers, Sequences, FiniteSets, TLC

VARIABLES
    args,        \* process.argv.slice(2)
    config,      \* the config.json document on disk
    pc,          \* position of the run
    exitCode,    \* the process exit code (meaningful once pc = "exited")
    action,      \* args[0].toLowerCase()
    vmId,        \* args[1]
    configRead,  \* whether fs.readFileSync(CONFIG_FILE_PATH) was called
    vmList,      \* configData.virtualMachines
    targetVms,   \* the array handed to processVmsAction (record indices)
    runningVms,  \* the array returned by listRunningVms (record indices)
    idx,         \* position of the for-of loop of processVmsAction
    issued,      \* every command passed to exec, in order
    outstanding, \* subprocesses spawned and not yet completed
    lastList,    \* what the list subprocess reported to the exec callback
    lastExec,    \* what the last suspend/start subprocess reported
    results,     \* the outcome reported for each per-VM command
    out          \* console.log / console.error lines, in order

vars == <<args, config, pc, exitCode, action, vmId, configRead, vmList,
          targetVms, runningVms, idx, issued, outstanding, lastList, lastExec,
          results, out>>

----------------------------------------------------------------------------
(* Bounds of the model *)

\* most records in config.virtualMachines
MaxVMs == 2
\* most lines after the header in the stdout of vmrun list
MaxRunning == 2

----------------------------------------------------------------------------
(* Strings *)

Undefined == <<"<undefined>">>
Empty == <<>>

sStatus == <<"s", "t", "a", "t", "u", "s">>
sSuspend == <<"s", "u", "s", "p", "e", "n", "d">>
sResume == <<"r", "e", "s", "u", "m", "e">>
sDash == <<"-">>
sErrorMarker == <<"E", "r", "r", "o", "r", ":">>
NL == "\n"

UpperChars == <<"A", "B", "C", "D", "E", "F", "G", "H", "I", "J", "K", "L", "M",
                "N", "O", "P", "Q", "R", "S", "T", "U", "V", "W", "X", "Y", "Z">>
LowerChars == <<"a", "b", "c", "d", "e", "f", "g", "h", "i", "j", "k", "l", "m",
                "n", "o", "p", "q", "r", "s", "t", "u", "v", "w", "x", "y", "z">>

UpperSet == {UpperChars[i] : i \in DOMAIN UpperChars}
LowerOf ==
    [c \in UpperSet |-> LowerChars[CHOOSE i \in DOMAIN UpperChars : UpperChars[i] = c]]

ToLowerChar(c) == IF c \in UpperSet THEN LowerOf[c] ELSE c

ToLowerCase(s) == [i \in DOMAIN s |-> ToLowerChar(s[i])]

\* JavaScript truthiness of a value that is a string or undefined
Truthy(s) == s # Undefined /\ s # Empty

IsSpace(c) == c \in {" ", "\t", "\r", "\n"}

RECURSIVE TrimStart(_)
TrimStart(s) ==
    IF s = <<>> THEN <<>>
    ELSE IF IsSpace(Head(s)) THEN TrimStart(Tail(s)) ELSE s

RECURSIVE TrimEnd(_)
TrimEnd(s) ==
    IF s = <<>> THEN <<>>
    ELSE IF IsSpace(s[Len(s)]) THEN TrimEnd(SubSeq(s, 1, Len(s) - 1)) ELSE s

Trim(s) == TrimEnd(TrimStart(s))

\* String.prototype.split on a one-character separator
RECURSIVE SplitFrom(_, _, _)
SplitFrom(s, sep, cur) ==
    IF s = <<>> THEN <<cur>>
    ELSE IF Head(s) = sep THEN <<cur>> \o SplitFrom(Tail(s), sep, <<>>)
    ELSE SplitFrom(Tail(s), sep, Append(cur, Head(s)))

Split(s, sep) == SplitFrom(s, sep, <<>>)

\* String.prototype.includes
Includes(s, sub) ==
    \E i \in 0..(Len(s) - Len(sub)) : SubSeq(s, i + 1, i + Len(sub)) = sub

\* Array.prototype.slice(1)
Slice1(a) == IF a = <<>> THEN <<>> ELSE Tail(a)

NonEmpty(line) == line # <<>>

RECURSIVE MapTrim(_)
MapTrim(a) == IF a = <<>> THEN <<>> ELSE <<Trim(Head(a))>> \o MapTrim(Tail(a))

----------------------------------------------------------------------------
(* Inputs *)

VM(id, path) == [id |-> id, name |-> <<"N">>, path |-> path]

\* two records share an id, two share a path, one has an empty id (the
\* fields of a record are not validated)
VMRecords == {VM(<<"a">>, <<"p">>), VM(<<"a">>, <<"q">>), VM(Empty, <<"q">>)}

VMLists == UNION {[1..n -> VMRecords] : n \in 0..MaxVMs}

vmrunTool == <<"v">>

ValidDocs == {[file |-> "object", vmrunPath |-> vmrunTool, isArray |-> TRUE, vms |-> l] :
                l \in VMLists}

SampleVms == <<VM(<<"a">>, <<"p">>)>>

InvalidDocs ==
    {[file |-> f, vmrunPath |-> vmrunTool, isArray |-> TRUE, vms |-> SampleVms] :
        f \in {"unreadable", "unparsable", "null"}}
    \cup {[file |-> "object", vmrunPath |-> v, isArray |-> TRUE, vms |-> SampleVms] :
        v \in {Undefined, Empty}}
    \cup {[file |-> "object", vmrunPath |-> vmrunTool, isArray |-> FALSE, vms |-> <<>>]}

ConfigDocs == ValidDocs \cup InvalidDocs

ActionTokens == {sStatus, <<"S", "T", "A", "T", "U", "S">>, sSuspend,
                 <<"R", "e", "s", "u", "m", "e">>, <<"x">>}
TargetTokens == {sDash, <<"a">>, <<"b">>, Empty}

Argvs ==
    {<<>>}
    \cup {<<a>> : a \in ActionTokens}
    \cup {<<a, t>> : a \in ActionTokens, t \in TargetTokens}
    \cup {<<sSuspend, sDash, sDash>>}

\* lines the list subprocess may write; joined with "\n" into its stdout
HeaderSamples == {<<"p">>}
LineSamples == {<<>>, <<"p">>, <<" ", "q", "\r">>}

RECURSIVE Join(_)
Join(ls) ==
    IF ls = <<>> THEN <<>>
    ELSE IF Len(ls) = 1 THEN ls[1]
    ELSE ls[1] \o <<NL>> \o Join(Tail(ls))

Stdouts ==
    {Empty, <<" ", NL>>}
    \cup {Join(<<h>> \o ls) :
            h \in HeaderSamples,
            ls \in UNION {[1..n -> LineSamples] : n \in 0..MaxRunning}}

ListReports ==
    {[error |-> FALSE, stdout |-> so, stderr |-> se] :
        so \in Stdouts, se \in {Empty, <<"w">>}}
    \cup {[error |-> TRUE, stdout |-> so, stderr |-> <<"w">>] : so \in Stdouts}

ActStderrs == {Empty, <<"E", "r", "r", "o", "r">>,
               <<"x">> \o sErrorMarker \o <<"y">>}

ActReports ==
    {[error |-> FALSE, stderr |-> s] : s \in ActStderrs}
    \cup {[error |-> TRUE, stderr |-> <<"w">>]}

NoReport == [error |-> FALSE, stdout |-> Empty, stderr |-> Empty]

----------------------------------------------------------------------------
(* Console output *)

Log(stream, msg, detail) == [stream |-> stream, msg |-> msg, detail |-> detail]

UsageText ==
    <<Log("stdout", "usage1", Empty), Log("stdout", "usage2", Empty),
      Log("stdout", "usage3", Empty), Log("stdout", "usage4", Empty),
      Log("stdout", "usage5", Empty)>>

----------------------------------------------------------------------------
(* main: argument validation *)

\* variant: the test of line 13 for "status <id>" left out
ArgsUsageErrorArityOnly(a) ==
    \/ Len(a) < 1
    \/ Len(a) > 2

ArgsUsageError(a) ==
    \/ Len(a) < 1
    \/ Len(a) > 2
    \/ (ToLowerCase(a[1]) = sStatus /\ Len(a) = 2)

KnownAction(act) == act \in {sSuspend, sResume, sStatus}

Init ==
    /\ args \in Argvs
    /\ config \in ConfigDocs
    /\ pc = "parse"
    /\ exitCode = 0
    /\ action = Undefined
    /\ vmId = Undefined
    /\ configRead = FALSE
    /\ vmList = <<>>
    /\ targetVms = <<>>
    /\ runningVms = <<>>
    /\ idx = 0
    /\ issued = <<>>
    /\ outstanding = 0
    /\ lastList = NoReport
    /\ lastExec = NoReport
    /\ results = <<>>
    /\ out = <<>>

Parse ==
    /\ pc = "parse"
    /\ IF ArgsUsageError(args)
       THEN /\ out' = out \o UsageText
            /\ exitCode' = 1
            /\ pc' = "exited"
            /\ UNCHANGED <<action, vmId>>
       ELSE /\ action' = ToLowerCase(args[1])
            /\ vmId' = IF Len(args) >= 2 THEN args[2] ELSE Undefined
            /\ IF ~KnownAction(action')
               THEN /\ out' = Append(out, Log("stderr", "badAction", Empty))
                    /\ exitCode' = 1
                    /\ pc' = "exited"
               ELSE /\ pc' = "load"
                    /\ UNCHANGED <<out, exitCode>>
    /\ UNCHANGED <<args, config, configRead, vmList, targetVms, runningVms, idx,
                   issued, outstanding, lastList, lastExec, results>>

----------------------------------------------------------------------------
(* main: configuration loading *)

\* readFileSync or JSON.parse throws, or the property access on null does
ConfigThrows(c) == c.file \in {"unreadable", "unparsable", "null"}

\* variant: only the virtualMachines half of the test of line 37
ConfigShapeOkArrayOnly(c) == c.isArray

\* the negation of the test of line 37
ConfigShapeOk(c) == Truthy(c.vmrunPath) /\ c.isArray

LoadConfig ==
    /\ pc = "load"
    /\ configRead' = TRUE
    /\ IF ConfigThrows(config)
       THEN /\ out' = out \o <<Log("stderr", "configUnreadable", Empty),
                               Log("stderr", "configErrorMessage", Empty)>>
            /\ exitCode' = 1
            /\ pc' = "exited"
            /\ UNCHANGED vmList
       ELSE IF ~ConfigShapeOk(config)
       THEN /\ out' = Append(out, Log("stderr", "configInvalid", Empty))
            /\ exitCode' = 1
            /\ pc' = "exited"
            /\ UNCHANGED vmList
       ELSE /\ vmList' = config.vms
            /\ pc' = "resolve"
            /\ UNCHANGED <<out, exitCode>>
    /\ UNCHANGED <<args, config, action, vmId, targetVms, runningVms, idx, issued,
                   outstanding, lastList, lastExec, results>>

----------------------------------------------------------------------------
(* main: target resolution *)

\* variant: the last record with the id instead of the first
FindByIdLast(list, id) ==
    IF \E i \in DOMAIN list : list[i].id = id
    THEN CHOOSE i \in DOMAIN list :
            list[i].id = id /\ \A j \in (i + 1)..Len(list) : list[j].id # id
    ELSE 0

\* vmList.find(vm => vm.id === id), as an index; 0 when find returns undefined
FindById(list, id) ==
    IF \E i \in DOMAIN list : list[i].id = id
    THEN CHOOSE i \in DOMAIN list :
            list[i].id = id /\ \A j \in 1..(i - 1) : list[j].id # id
    ELSE 0

\* vmList.find(vm => vm.path === p), as an index; 0 when find returns undefined
FindByPath(list, p) ==
    IF \E i \in DOMAIN list : list[i].path = p
    THEN CHOOSE i \in DOMAIN list :
            list[i].path = p /\ \A j \in 1..(i - 1) : list[j].path # p
    ELSE 0

\* variant: resume - filtered by the list query as well
BatchQueriesListAlways(act) == TRUE

\* whether "suspend -" / "resume -" asks vmrun which VMs are running first
BatchQueriesList(act) == act = sSuspend

AllIndices(list) == [i \in 1..Len(list) |-> i]

Resolve ==
    /\ pc = "resolve"
    /\ IF action \in {sSuspend, sResume}
       THEN IF ~Truthy(vmId)
            THEN /\ out' = Append(out, Log("stderr", "idRequired", action))
                 /\ exitCode' = 1
                 /\ pc' = "exited"
                 /\ UNCHANGED targetVms
            ELSE IF vmId = sDash
            THEN IF BatchQueriesList(action)
                 THEN /\ out' = Append(out, Log("stdout", "checkingRunning", Empty))
                      /\ pc' = "list"
                      /\ UNCHANGED <<targetVms, exitCode>>
                 ELSE /\ targetVms' = AllIndices(vmList)
                      /\ out' = Append(out, Log("stdout", "initiatingAll", action))
                      /\ pc' = "process"
                      /\ UNCHANGED exitCode
            ELSE IF FindById(vmList, vmId) = 0
            THEN /\ out' = Append(out, Log("stderr", "vmNotFound", vmId))
                 /\ exitCode' = 1
                 /\ pc' = "exited"
                 /\ UNCHANGED targetVms
            ELSE /\ targetVms' = <<FindById(vmList, vmId)>>
                 /\ out' = Append(out, Log("stdout", "initiatingOne", vmId))
                 /\ pc' = "process"
                 /\ UNCHANGED exitCode
       ELSE IF action = sStatus
       THEN IF Truthy(vmId)
            THEN /\ out' = out \o <<Log("stderr", "statusTakesNoId", Empty),
                                    Log("stderr", "statusUsage", Empty)>>
                 /\ exitCode' = 1
                 /\ pc' = "exited"
                 /\ UNCHANGED targetVms
            ELSE /\ out' = Append(out, Log("stdout", "listingRunning", Empty))
                 /\ pc' = "list"
                 /\ UNCHANGED <<targetVms, exitCode>>
       ELSE /\ out' = Append(out, Log("stderr", "unknownAction", Empty))
            /\ exitCode' = 1
            /\ pc' = "exited"
            /\ UNCHANGED targetVms
    /\ UNCHANGED <<args, config, action, vmId, configRead, vmList, runningVms, idx,
                   issued, outstanding, lastList, lastExec, results>>

----------------------------------------------------------------------------
(* executeCommand and listRunningVms *)

Command(sub, vmPath, vm) ==
    [tool |-> config.vmrunPath, sub |-> sub, path |-> vmPath, vm |-> vm]

ListSpawn ==
    /\ pc = "list"
    /\ issued' = Append(issued, Command("list", Empty, 0))
    /\ outstanding' = outstanding + 1
    /\ pc' = "listWait"
    /\ UNCHANGED <<args, config, exitCode, action, vmId, configRead, vmList,
                   targetVms, runningVms, idx, lastList, lastExec, results, out>>

\* stdout.split('\n').slice(1).map(line => line.trim()).filter(line => line)
RunningVmsPaths(stdout) == SelectSeq(MapTrim(Slice1(Split(stdout, NL))), NonEmpty)

\* the loop of lines 138-146: the records pushed, in order
RECURSIVE IdentifiedRunningVms(_, _)
IdentifiedRunningVms(paths, list) ==
    IF paths = <<>> THEN <<>>
    ELSE (IF FindByPath(list, Head(paths)) # 0
          THEN <<FindByPath(list, Head(paths))>>
          ELSE <<>>) \o IdentifiedRunningVms(Tail(paths), list)

\* the loop of lines 138-146: the warnings printed, in order
RECURSIVE UnknownPathWarnings(_, _)
UnknownPathWarnings(paths, list) ==
    IF paths = <<>> THEN <<>>
    ELSE (IF FindByPath(list, Head(paths)) = 0
          THEN <<Log("stdout", "warnNotInConfig", Head(paths))>>
          ELSE <<>>) \o UnknownPathWarnings(Tail(paths), list)

\* variant: the stdout of a failed exec is parsed all the same
ListRunningVmsIgnoringError(r, list) ==
    IF r.stderr # Empty /\ Trim(r.stdout) = Empty THEN <<>>
    ELSE IdentifiedRunningVms(RunningVmsPaths(r.stdout), list)

\* the value listRunningVms resolves to, given what exec reported
ListRunningVms(r, list) ==
    IF r.error THEN <<>>
    ELSE IF r.stderr # Empty /\ Trim(r.stdout) = Empty THEN <<>>
    ELSE IdentifiedRunningVms(RunningVmsPaths(r.stdout), list)

ListOutput(r, list) ==
    IF r.error THEN <<Log("stderr", "listFailed", Empty)>>
    ELSE IF r.stderr # Empty /\ Trim(r.stdout) = Empty THEN <<>>
    ELSE UnknownPathWarnings(RunningVmsPaths(r.stdout), list)

ListComplete ==
    /\ pc = "listWait"
    /\ \E r \in ListReports :
          /\ lastList' = r
          /\ runningVms' = ListRunningVms(r, vmList)
          /\ out' = out \o ListOutput(r, vmList)
    /\ outstanding' = outstanding - 1
    /\ pc' = "listed"
    /\ UNCHANGED <<args, config, exitCode, action, vmId, configRead, vmList,
                   targetVms, idx, issued, lastExec, results>>

StatusLines(running) ==
    IF running = <<>> THEN <<Log("stdout", "noneRunning", Empty)>>
    ELSE <<Log("stdout", "runningHeader", Empty)>>
         \o [i \in 1..Len(running) |->
                Log("stdout", "statusLine", vmList[running[i]].id)]

AfterList ==
    /\ pc = "listed"
    /\ IF action = sSuspend
       THEN /\ targetVms' = runningVms
            /\ IF Len(targetVms') = 0
               THEN /\ out' = Append(out, Log("stdout", "noneToSuspend", Empty))
                    /\ exitCode' = 0
                    /\ pc' = "exited"
               ELSE /\ out' = Append(out, Log("stdout", "initiatingAll", action))
                    /\ pc' = "process"
                    /\ UNCHANGED exitCode
       ELSE /\ out' = out \o StatusLines(runningVms)
            /\ pc' = "finish"
            /\ UNCHANGED <<targetVms, exitCode>>
    /\ UNCHANGED <<args, config, action, vmId, configRead, vmList, runningVms, idx,
                   issued, outstanding, lastList, lastExec, results>>

----------------------------------------------------------------------------
(* processVmsAction *)

ProcessStart ==
    /\ pc = "process"
    /\ IF Len(targetVms) = 0
       THEN /\ out' = Append(out, Log("stdout", "noneFound", action))
            /\ pc' = "finish"
            /\ UNCHANGED idx
       ELSE /\ out' = Append(out, Log("stdout", "starting", action))
            /\ idx' = 1
            /\ pc' = "loop"
    /\ UNCHANGED <<args, config, exitCode, action, vmId, configRead, vmList,
                   targetVms, runningVms, issued, outstanding, lastList, lastExec,
                   results>>

\* variant: the target array walked from its end
TargetAtReversed(targets, i) == targets[Len(targets) + 1 - i]

\* the record the i-th iteration of for (const vmConfig of targetVms) binds
TargetAt(targets, i) == targets[i]

SubCommand(act) == IF act = sSuspend THEN "suspend" ELSE "start"

ActSpawn ==
    /\ pc = "loop"
    /\ LET vm == TargetAt(targetVms, idx) IN
          /\ issued' = Append(issued, Command(SubCommand(action), vmList[vm].path, vm))
          /\ out' = Append(out, Log("stdout", "acting", vmList[vm].id))
    /\ outstanding' = outstanding + 1
    /\ pc' = "actWait"
    /\ UNCHANGED <<args, config, exitCode, action, vmId, configRead, vmList,
                   targetVms, runningVms, idx, lastList, lastExec, results>>

\* variant: any text on stderr counts as a failure
ClassifyAnyStderr(error, stderr) ==
    IF error THEN "Failure"
    ELSE IF stderr # Empty THEN "Failure"
    ELSE "Success"

\* lines 185-198: the outcome reported for what exec delivered
Classify(error, stderr) ==
    IF error THEN "Failure"
    ELSE IF stderr # Empty
    THEN (IF Includes(stderr, sErrorMarker) THEN "Failure" ELSE "Success")
    ELSE "Success"

\* the line printed for that outcome
OutcomeLine(outcome, error, stderr, vm) ==
    IF outcome = "Failure"
    THEN (IF error THEN Log("stderr", "failedDetails", vmList[vm].name)
          ELSE Log("stderr", "failedError", vmList[vm].name))
    ELSE (IF stderr # Empty THEN Log("stdout", "successWithOutput", vmList[vm].name)
          ELSE Log("stdout", "success", vmList[vm].name))

\* variant: no try/catch inside the loop, a failure ends it
LoopContinuesUnlessFailed(i, n, outcome) == i < n /\ outcome # "Failure"

\* whether the for-of loop has another iteration after the i-th of n
LoopContinues(i, n, outcome) == i < n

ActComplete ==
    /\ pc = "actWait"
    /\ \E r \in ActReports :
          LET outcome == Classify(r.error, r.stderr) IN
          /\ lastExec' = [error |-> r.error, stdout |-> Empty, stderr |-> r.stderr]
          /\ results' = Append(results, outcome)
          /\ IF LoopContinues(idx, Len(targetVms), outcome)
             THEN /\ out' = Append(out, OutcomeLine(outcome, r.error, r.stderr,
                                                    TargetAt(targetVms, idx)))
                  /\ pc' = "loop"
             ELSE /\ out' = out \o <<OutcomeLine(outcome, r.error, r.stderr,
                                                 TargetAt(targetVms, idx)),
                                     Log("stdout", "completed", action)>>
                  /\ pc' = "finish"
    /\ idx' = idx + 1
    /\ outstanding' = outstanding - 1
    /\ UNCHANGED <<args, config, exitCode, action, vmId, configRead, vmList,
                   targetVms, runningVms, issued, lastList>>

\* variant: the break of lines 87/106 missing, control falls into default
FinishFallThrough ==
    /\ pc = "finish"
    /\ out' = Append(out, Log("stderr", "unknownAction", Empty))
    /\ exitCode' = 1
    /\ pc' = "exited"
    /\ UNCHANGED <<args, config, action, vmId, configRead, vmList, targetVms,
                   runningVms, idx, issued, outstanding, lastList, lastExec, results>>

\* main returns; with nothing pending the process ends with its exit code
Finish ==
    /\ pc = "finish"
    /\ pc' = "exited"
    /\ UNCHANGED <<args, config, exitCode, action, vmId, configRead, vmList,
                   targetVms, runningVms, idx, issued, outstanding, lastList,
                   lastExec, results, out>>

Next ==
    \/ Parse
    \/ LoadConfig
    \/ Resolve
    \/ ListSpawn
    \/ ListComplete
    \/ AfterList
    \/ ProcessStart
    \/ ActSpawn
    \/ ActComplete
    \/ Finish

Spec == Init /\ [][Next]_vars

----------------------------------------------------------------------------
(* Vocabulary of the properties *)

Range(f) == {f[i] : i \in DOMAIN f}

IsActCmd(c) == c.sub \in {"suspend", "start"}
IsListCmd(c) == c.sub = "list"
ActCmds == SelectSeq(issued, IsActCmd)
ListCmds == SelectSeq(issued, IsListCmd)

ArgAction == ToLowerCase(args[1])

ValidInvocation ==
    \/ (Len(args) = 1 /\ ArgAction = sStatus)
    \/ (Len(args) = 2 /\ ArgAction \in {sSuspend, sResume})

BadConfig ==
    \/ config.file # "object"
    \/ config.vmrunPath \in {Undefined, Empty}
    \/ ~config.isArray

GoodConfig == ~BadConfig

StatusRun == Len(args) = 1 /\ ArgAction = sStatus /\ GoodConfig
BatchRun == Len(args) = 2 /\ ArgAction \in {sSuspend, sResume} /\ args[2] = sDash
            /\ GoodConfig
ResumeAll == BatchRun /\ ArgAction = sResume
SuspendAll == BatchRun /\ ArgAction = sSuspend
SpecificTarget == Len(args) = 2 /\ ArgAction \in {sSuspend, sResume}
                  /\ args[2] # sDash /\ GoodConfig

IdKnown == \E i \in DOMAIN config.vms : config.vms[i].id = args[2]

\* the non-empty trimmed lines after the header of the list query's stdout
ReportedLines == RunningVmsPaths(lastList.stdout)
ReportedPaths == Range(ReportedLines)
InConfig(p) == \E i \in DOMAIN vmList : vmList[i].path = p
MatchedLines == SelectSeq(ReportedLines, InConfig)
\* the configured records the list query reported as running
ReportedRunning ==
    IF lastList.error THEN {}
    ELSE LET paths == ReportedPaths IN
         {i \in DOMAIN vmList : vmList[i].path \in paths}

ListDone == ListCmds # <<>> /\ pc \notin {"list", "listWait"}
ListFailed == lastList.error
              \/ (lastList.stderr # Empty /\ Trim(lastList.stdout) = Empty)

ContainsErrorMarker(s) ==
    \E i \in 1..Len(s) :
        /\ i + Len(sErrorMarker) - 1 <= Len(s)
        /\ \A j \in 1..Len(sErrorMarker) : s[i + j - 1] = sErrorMarker[j]

IsOutcomeLine(l) ==
    l.msg \in {"failedDetails", "failedError", "success", "successWithOutput"}
OutcomeLines == SelectSeq(out, IsOutcomeLine)

LastMsg == out[Len(out)].msg

----------------------------------------------------------------------------
(* Properties *)

\* C1: with valid arguments and a configuration that cannot be read or
\* parsed, lacks a non-empty vmrunPath or has a non-array virtualMachines,
\* the run never leaves parsing/loading except to exit with code 1, and no
\* subprocess is ever invoked.
C1_ConfigErrorExits ==
    (ValidInvocation /\ BadConfig) =>
        /\ issued = <<>>
        /\ outstanding = 0
        /\ pc \in {"parse", "load", "exited"}
        /\ (pc = "exited" => exitCode = 1 /\ configRead)

C1_Witness ==
    /\ ValidInvocation
    /\ config.file = "object" /\ config.vmrunPath = Empty /\ config.isArray
    /\ pc = "exited" /\ exitCode = 1

\* C2: suspend/resume of a specific target: when no record has that id the
\* run exits with code 1 without any subprocess; every command issued acts
\* on the first record in list order whose id equals the target, and a
\* matching non-empty target ends with exactly that one command and code 0
\* (an empty target is rejected as missing, before the lookup).
C2_SpecificTarget ==
    SpecificTarget =>
        /\ args[2] = Empty =>
              /\ issued = <<>>
              /\ pc \in {"parse", "load", "resolve", "exited"}
              /\ (pc = "exited" => exitCode = 1 /\ LastMsg = "idRequired")
        /\ ~IdKnown =>
              /\ issued = <<>>
              /\ pc \in {"parse", "load", "resolve", "exited"}
              /\ (pc = "exited" => exitCode = 1)
        /\ \A k \in DOMAIN issued :
              LET i == issued[k].vm IN
              /\ IsActCmd(issued[k])
              /\ i \in DOMAIN config.vms
              /\ config.vms[i].id = args[2]
              /\ \A j \in 1..(i - 1) : config.vms[j].id # args[2]
        /\ (IdKnown /\ args[2] # Empty /\ pc = "exited") =>
              (exitCode = 0 /\ Len(issued) = 1)

C2_Witness ==
    /\ SpecificTarget
    /\ Len(config.vms) >= 2
    /\ config.vms[1].id = args[2] /\ config.vms[2].id = args[2]
    /\ config.vms[1] # config.vms[2]
    /\ Len(issued) = 1 /\ issued[1].vm = 1
    /\ pc = "exited"

\* C3 (as claimed): after a status run whose list query executed, the
\* records listed are exactly the configured records whose path is a
\* non-empty trimmed line after the header, each listed once.
C3_StatusListsExactly ==
    (StatusRun /\ pc \in {"finish", "exited"} /\ ~lastList.error) =>
        /\ \A i \in DOMAIN vmList :
              (vmList[i].path \in ReportedPaths) <=> (i \in Range(runningVms))
        /\ \A k1, k2 \in DOMAIN runningVms :
              k1 # k2 => runningVms[k1] # runningVms[k2]

\* C4: resume - never queries the list and starts every configured record;
\* suspend - issues exactly one list query, before any suspend command,
\* suspends only configured VMs that query reported, and when it reported
\* none issues no suspend command and exits with code 0.
C4_BatchTargets ==
    /\ ResumeAll =>
          /\ ListCmds = <<>>
          /\ \A k \in DOMAIN issued : issued[k].sub = "start"
          /\ pc = "exited" =>
                /\ exitCode = 0
                /\ Len(issued) = Len(config.vms)
                /\ \A i \in DOMAIN config.vms :
                      \E k \in DOMAIN issued :
                          issued[k].vm = i /\ issued[k].path = config.vms[i].path
    /\ SuspendAll =>
          LET running == ReportedRunning IN
          /\ Len(ListCmds) <= 1
          /\ ActCmds # <<>> => (issued[1].sub = "list" /\ ListDone)
          /\ \A k \in DOMAIN issued :
                IsActCmd(issued[k]) =>
                    (issued[k].sub = "suspend" /\ issued[k].vm \in running)
          /\ pc = "exited" => Len(ListCmds) = 1
          /\ (pc = "exited" /\ running = {}) => (ActCmds = <<>> /\ exitCode = 0)

C4_Witness ==
    /\ SuspendAll
    /\ pc = "exited"
    /\ Len(ActCmds) >= 1
    /\ DOMAIN vmList \ ReportedRunning # {}

\* C5 (as claimed): in a batch run at most one subprocess is outstanding
\* and the per-VM commands follow configuration-list order.
C5_ConfigOrder ==
    BatchRun =>
        LET acts == ActCmds IN
        /\ outstanding <= 1
        /\ \A k1, k2 \in DOMAIN acts : k1 < k2 => acts[k1].vm <= acts[k2].vm

\* C5 (amended): in a batch run at most one subprocess is outstanding, a
\* command is issued only after every earlier one has completed, and the
\* per-VM commands follow the target list: configuration-list order for
\* resume -, the order in which the list query reported the paths for
\* suspend -.
C5_TargetOrder ==
    BatchRun =>
        LET acts == ActCmds IN
        /\ outstanding <= 1
        /\ (outstanding = 1) <=> (pc \in {"listWait", "actWait"})
        /\ Len(acts) = Len(results) + (IF pc = "actWait" THEN 1 ELSE 0)
        /\ ResumeAll => \A k \in DOMAIN acts : acts[k].vm = k
        /\ (SuspendAll /\ acts # <<>>) =>
              LET matched == MatchedLines IN
              /\ Len(acts) <= Len(matched)
              /\ \A k \in DOMAIN acts : vmList[acts[k].vm].path = matched[k]

C5_Witness ==
    /\ SuspendAll
    /\ pc = "exited"
    /\ Len(ActCmds) = 2
    /\ ActCmds[1].vm > ActCmds[2].vm

\* C6: a batch loop over N targets issues exactly one command per target
\* whatever the outcomes of the earlier ones, and the process then exits
\* with code 0, also when every action failed.
C6_LoopNeverAborts ==
    (BatchRun /\ pc \in {"finish", "exited"}) =>
        LET N == IF ArgAction = sResume THEN Len(config.vms)
                 ELSE IF lastList.error THEN 0 ELSE Len(MatchedLines) IN
        /\ Len(ActCmds) = N
        /\ Len(results) = N
        /\ exitCode = 0

C6_Witness ==
    /\ BatchRun
    /\ pc = "exited"
    /\ exitCode = 0
    /\ Len(results) >= 2
    /\ \A k \in DOMAIN results : results[k] = "Failure"

UsageCase ==
    \/ Len(args) < 1
    \/ Len(args) > 2
    \/ (Len(args) = 2 /\ ArgAction = sStatus)
UnknownTokenCase ==
    Len(args) \in {1, 2} /\ ArgAction \notin {sSuspend, sResume, sStatus}
MissingTargetCase == Len(args) = 1 /\ ArgAction \in {sSuspend, sResume}

\* C7 (as claimed): every invocation that is not status with 1 argument or
\* suspend/resume with 2 prints the usage text to stdout, exits with code
\* 1, never reads the configuration and invokes no subprocess.
C7_UsageError ==
    ~ValidInvocation =>
        /\ ~configRead
        /\ issued = <<>>
        /\ pc = "exited" => (exitCode = 1 /\ out = UsageText)

\* C7 (amended): every such invocation exits with code 1 and invokes no
\* subprocess.  With 0 or more than 2 arguments, or status with 2, the
\* usage text goes to stdout and the configuration is not read; an
\* unrecognized first token with 1 or 2 arguments gets an error on stderr
\* instead, the configuration still unread; suspend/resume with 1 argument
\* reads the configuration first and then fails on stderr.
C7_InvalidInvocation ==
    ~ValidInvocation =>
        /\ issued = <<>>
        /\ pc \in {"parse", "load", "resolve", "exited"}
        /\ pc = "exited" => exitCode = 1
        /\ UsageCase =>
              (~configRead /\ pc \in {"parse", "exited"}
               /\ (pc = "exited" => out = UsageText))
        /\ UnknownTokenCase =>
              (~configRead /\ pc \in {"parse", "exited"}
               /\ (pc = "exited" => out = <<Log("stderr", "badAction", Empty)>>))
        /\ (MissingTargetCase /\ pc = "exited") =>
              (configRead /\ out # <<>>
               /\ \A k \in DOMAIN out : out[k].stream = "stderr")

C7_Witness ==
    /\ MissingTargetCase
    /\ GoodConfig
    /\ pc = "exited"
    /\ configRead
    /\ LastMsg = "idRequired"

\* C8: the outcome reported for a per-VM command is Failure exactly when
\* the subprocess execution failed or its stderr contains "Error:", and
\* Success otherwise.
C8_OutcomeClassification ==
    results # <<>> =>
        LET failed == lastExec.error \/ ContainsErrorMarker(lastExec.stderr) IN
        /\ Len(OutcomeLines) = Len(results)
        /\ results[Len(results)] \in {"Failure", "Success"}
        /\ (results[Len(results)] = "Failure") <=> failed
        /\ (OutcomeLines[Len(OutcomeLines)].stream = "stderr") <=> failed
        /\ (OutcomeLines[Len(OutcomeLines)].msg \in {"failedDetails", "failedError"})
              <=> failed

C8_Witness ==
    /\ results # <<>>
    /\ ~lastExec.error
    /\ lastExec.stderr # Empty
    /\ ~ContainsErrorMarker(lastExec.stderr)
    /\ results[Len(results)] = "Success"

StepOf(p) ==
    CASE p = "parse" -> 1
      [] p = "load" -> 2
      [] p = "resolve" -> 3
      [] p = "list" -> 4
      [] p = "listWait" -> 5
      [] p = "listed" -> 6
      [] p = "process" -> 7
      [] p \in {"loop", "actWait"} -> 8
      [] p = "finish" -> 9
      [] p = "exited" -> 10

EarlyFailureMsgs ==
    {"usage5", "badAction", "configErrorMessage", "configInvalid", "idRequired",
     "vmNotFound"}
ReportMsgs ==
    {"completed", "noneFound", "noneRunning", "statusLine", "noneToSuspend"}

C9_Terminal ==
    /\ pc = "exited" =>
          /\ out # <<>>
          /\ \/ (exitCode = 1 /\ issued = <<>> /\ LastMsg \in EarlyFailureMsgs)
             \/ (exitCode = 0 /\ LastMsg \in ReportMsgs)
    /\ (StatusRun /\ pc = "exited") => exitCode = 0
    /\ StatusRun => pc # "process"

\* C9: the run moves forward through Parse, Load, Resolve, List, Act x N,
\* Report without revisiting a step; it ends either with code 1 after an
\* argument, configuration or lookup failure and before any command, or
\* with code 0 after a completed report; a status run with valid arguments
\* and configuration ends with code 0.
C9_LinearPipeline ==
    /\ []C9_Terminal
    /\ [][/\ StepOf(pc') >= StepOf(pc)
          /\ (StepOf(pc') = StepOf(pc) => pc \in {"loop", "actWait"} /\ pc' # pc)]_vars

C9_Witness ==
    /\ StatusRun
    /\ pc = "exited"
    /\ exitCode = 0
    /\ runningVms # <<>>

\* C10: when the list subprocess fails to execute, or writes to stderr with
\* blank stdout, listRunningVms yields the empty array: status reports
\* that nothing is running and exits with code 0, suspend - issues no
\* suspend command and exits with code 0.
C10_ListFailureIsEmpty ==
    (ListDone /\ ListFailed) =>
        /\ runningVms = <<>>
        /\ ActCmds = <<>>
        /\ pc \in {"listed", "finish", "exited"}
        /\ pc = "exited" => exitCode = 0
        /\ (action = sStatus /\ pc \in {"finish", "exited"}) => LastMsg = "noneRunning"
        /\ (action = sSuspend /\ pc = "exited") => LastMsg = "noneToSuspend"

C10_Witness ==
    /\ ListDone
    /\ lastList.error
    /\ \E i \in DOMAIN vmList : vmList[i].path \in ReportedPaths
    /\ action = sSuspend
    /\ pc = "exited"

====
